---- MODULE Spec2Model ----
(***************************************************************************)
(* Mathison Python SDKs.                                                   *)
(*   Client A     : src/sdks/python/mathison_sdk/__init__.py (requests)    *)
(*   Client B     : src/version-one/sdks/python/mathison_sdk/client.py     *)
(*                  MathisonClient (httpx.Client) and AsyncMathisonClient  *)
(*                  (httpx.AsyncClient)                                    *)
(* Python values are written as strings (None is "None", 0 is "0", the     *)
(* empty list is "[]"), a dict is a function from its keys, an Optional    *)
(* dict is a sequence of length 0 (None) or 1.  A URL is a sequence of     *)
(* pieces: the characters of base_url followed by the pieces of the path.  *)
(* client.py carries the two characters backslash-n where its generator    *)
(* meant line breaks between methods; the methods are modelled as they     *)
(* read with those line breaks in place.                                   *)
(***************************************************************************)
EXTENDS Naturals, Sequences, FiniteSets, TLC

VARIABLES
    ctor,             \* the arguments the constructor was called with
    variant,          \* which client class was constructed
    base_url, api_key, timeout,
    session_headers,  \* Client A: the default headers of self.session
    scope,            \* "plain", "with" (inside a with block), "left"
    closed,           \* Client B: the underlying httpx client has been closed
    pc,               \* "idle"; "awaiting": a suspended call awaits its response;
                      \* "done": a call has returned or raised
    nCalls,           \* endpoint method calls begun
    nSent,            \* requests handed to the HTTP library
    lastCall,         \* the endpoint method called and its arguments
    lastReq,          \* the request it handed to the HTTP library
    lastResp,         \* what the server or the network answered
    outcome,          \* what the call returned or raised
    lifecycleLog      \* Client A: the beam lifecycle calls made so far, as
                      \* SpecLifecycle records them

vars == <<ctor, variant, base_url, api_key, timeout, session_headers,
          scope, closed, pc, nCalls, nSent,
          lastCall, lastReq, lastResp, outcome, lifecycleLog>>

config == <<ctor, variant, base_url, api_key, timeout, session_headers>>

----------------------------------------------------------------------------
(* Bounds *)

MaxSlashes == 2
MaxCalls == 2
MaxBeams == 2
MaxLifecycle == 3

----------------------------------------------------------------------------
(* Python values *)

None == "None"

Falsy == {None, "", "0", "False", "[]", "{}"}

Truthy(v) == v \notin Falsy

EmptyDict == <<>>

Put(d, k, v) == [x \in (DOMAIN d) \cup {k} |-> IF x = k THEN v ELSE d[x]]

NoDict == <<>>

Some(d) == <<d>>

Get(d, k) == IF k \in DOMAIN d THEN d[k] ELSE None

----------------------------------------------------------------------------
(* Construction *)

DefaultTimeout == 30

(* nothing is stripped *)
rstrip_nothing(s, c) == s

RECURSIVE rstrip(_, _)
rstrip(s, c) ==
    IF Len(s) > 0 /\ s[Len(s)] = c
    THEN rstrip(SubSeq(s, 1, Len(s) - 1), c)
    ELSE s

A_session_headers(key) ==
    LET auth == IF Truthy(key)
                THEN Put(EmptyDict, "Authorization", "Bearer " \o key)
                ELSE EmptyDict
    IN  Put(auth, "Content-Type", "application/json")

(* the Authorization header is built whether or not a key was given *)
B_headers_always_auth(key) ==
    Put(Put(EmptyDict, "Content-Type", "application/json"),
        "Authorization", "Bearer " \o key)

B_headers(key) ==
    LET headers == Put(EmptyDict, "Content-Type", "application/json")
    IN  IF Truthy(key)
        THEN Put(headers, "Authorization", "Bearer " \o key)
        ELSE headers

AsyncB_headers(key) ==
    LET headers == Put(EmptyDict, "Content-Type", "application/json")
    IN  IF Truthy(key)
        THEN Put(headers, "Authorization", "Bearer " \o key)
        ELSE headers

RECURSIVE Slashes(_)
Slashes(n) == IF n = 0 THEN <<>> ELSE <<"/">> \o Slashes(n - 1)

Stems == {<<>>, <<"h">>, <<"h", "/", "p">>}

UrlInputs == {stem \o Slashes(n) : stem \in Stems, n \in 0..MaxSlashes}

ApiKeys == {None, "", "k1"}

Timeouts == {DefaultTimeout, 5}

Variants == {"A", "B", "AsyncB"}

CtorArgs ==
    {[base_url |-> u, api_key |-> "k1", timeout |-> DefaultTimeout] : u \in UrlInputs}
    \cup {[base_url |-> <<"h">>, api_key |-> k, timeout |-> t] :
             k \in ApiKeys, t \in Timeouts}

----------------------------------------------------------------------------
(* Arguments the callers pass *)

StrOpt == {None, "", "x"}

ListOpt == {None, "[]", "['t']"}

BoolOpt == {None, "False", "True"}

IntOpt == {None, "0", "5"}

DictOpt == {None, "{}", "{'a': 1}"}

Ids == {"n1", "n2"}

(* What an endpoint method hands to the transport helper: the verb, the     *)
(* path, the json and params arguments; m and args record the method and    *)
(* the caller's arguments, opt the names of the optional ones.              *)
Call(m, verb, path, json, params, args, opt) ==
    [m |-> m, verb |-> verb, path |-> path, json |-> json, params |-> params,
     args |-> args, opt |-> opt]

----------------------------------------------------------------------------
(* Client A: endpoint methods *)

A_health ==
    Call("health", "GET", <<"/health">>, NoDict, NoDict, EmptyDict, {})

A_get_status ==
    Call("get_status", "GET", <<"/api/status">>, NoDict, NoDict, EmptyDict, {})

A_get_identity ==
    Call("get_identity", "GET", <<"/api/identity">>, NoDict, NoDict, EmptyDict, {})

A_send_message(content) ==
    Call("send_message", "POST", <<"/api/chat/send">>,
         Some([content |-> content]), NoDict, [content |-> content], {})

A_get_chat_history(limit, offset) ==
    Call("get_chat_history", "GET", <<"/api/chat/history">>, NoDict,
         Some([limit |-> limit, offset |-> offset]),
         [limit |-> limit, offset |-> offset], {"limit", "offset"})

A_query_beams(text, tags, kinds, include_dead, limit) ==
    LET params == [text |-> text, tags |-> tags, kinds |-> kinds,
                   include_dead |-> include_dead, limit |-> limit]
    IN  Call("query_beams", "GET", <<"/api/beams">>, NoDict, Some(params),
             params, {"text", "tags", "kinds", "include_dead", "limit"})

A_get_beam(beam_id) ==
    Call("get_beam", "GET", <<"/api/beams/", beam_id>>, NoDict, NoDict,
         [beam_id |-> beam_id], {})

A_create_beam(kind, title, tags, body, beam_id, pinned) ==
    LET p0 == [kind |-> kind, title |-> title, tags |-> tags, body |-> body]
        p1 == IF Truthy(beam_id) THEN Put(p0, "beam_id", beam_id) ELSE p0
        p2 == IF pinned # None THEN Put(p1, "pinned", pinned) ELSE p1
    IN  Call("create_beam", "POST", <<"/api/beams">>, Some(p2), NoDict,
             [kind |-> kind, title |-> title, tags |-> tags, body |-> body,
              beam_id |-> beam_id, pinned |-> pinned],
             {"beam_id", "pinned"})

(* tests for None where the code tests for truth *)
A_update_beam_not_none(beam_id, title, tags, body) ==
    LET p1 == IF title # None THEN Put(EmptyDict, "title", title) ELSE EmptyDict
        p2 == IF tags # None THEN Put(p1, "tags", tags) ELSE p1
        p3 == IF body # None THEN Put(p2, "body", body) ELSE p2
    IN  Call("update_beam", "PATCH", <<"/api/beams/", beam_id>>, Some(p3), NoDict,
             [beam_id |-> beam_id, title |-> title, tags |-> tags, body |-> body],
             {"title", "tags", "body"})

A_update_beam(beam_id, title, tags, body) ==
    LET p1 == IF Truthy(title) THEN Put(EmptyDict, "title", title) ELSE EmptyDict
        p2 == IF Truthy(tags) THEN Put(p1, "tags", tags) ELSE p1
        p3 == IF Truthy(body) THEN Put(p2, "body", body) ELSE p2
    IN  Call("update_beam", "PATCH", <<"/api/beams/", beam_id>>, Some(p3), NoDict,
             [beam_id |-> beam_id, title |-> title, tags |-> tags, body |-> body],
             {"title", "tags", "body"})

A_pin_beam(beam_id) ==
    Call("pin_beam", "POST", <<"/api/beams/", beam_id, "/pin">>, NoDict, NoDict,
         [beam_id |-> beam_id], {})

(* unpin posts to the pin path, as pin does *)
A_unpin_beam_post(beam_id) ==
    Call("unpin_beam", "POST", <<"/api/beams/", beam_id, "/pin">>, NoDict, NoDict,
         [beam_id |-> beam_id], {})

A_unpin_beam(beam_id) ==
    Call("unpin_beam", "DELETE", <<"/api/beams/", beam_id, "/pin">>, NoDict, NoDict,
         [beam_id |-> beam_id], {})

A_retire_beam(beam_id) ==
    Call("retire_beam", "POST", <<"/api/beams/", beam_id, "/retire">>, NoDict, NoDict,
         [beam_id |-> beam_id], {})

A_tombstone_beam(beam_id, reason_code, approval_token) ==
    LET p0 == [reason_code |-> reason_code]
        p1 == IF Truthy(approval_token)
              THEN Put(p0, "approval_token", approval_token) ELSE p0
    IN  Call("tombstone_beam", "POST", <<"/api/beams/", beam_id, "/tombstone">>,
             Some(p1), NoDict,
             [beam_id |-> beam_id, reason_code |-> reason_code,
              approval_token |-> approval_token],
             {"approval_token"})

A_Calls ==
    {A_health, A_get_status, A_get_identity}
    \cup {A_send_message(c) : c \in {"hi"}}
    \cup {A_get_chat_history(l, o) : l \in IntOpt, o \in IntOpt}
    \cup {A_query_beams(t, g, k, d, l) :
             t \in StrOpt, g \in ListOpt, k \in ListOpt, d \in BoolOpt, l \in IntOpt}
    \cup {A_get_beam(i) : i \in Ids}
    \cup {A_create_beam("note", "T", "['t']", "B", i, p) : i \in StrOpt, p \in BoolOpt}
    \cup {A_update_beam(i, t, g, b) :
             i \in Ids, t \in StrOpt, g \in ListOpt, b \in StrOpt}
    \cup {A_pin_beam(i) : i \in Ids}
    \cup {A_unpin_beam(i) : i \in Ids}
    \cup {A_retire_beam(i) : i \in Ids}
    \cup {A_tombstone_beam(i, "dup", a) : i \in Ids, a \in StrOpt}

A_LifecycleCalls ==
    {A_pin_beam(i) : i \in Ids}
    \cup {A_unpin_beam(i) : i \in Ids}
    \cup {A_retire_beam(i) : i \in Ids}
    \cup {A_tombstone_beam(i, "dup", a) : i \in Ids, a \in StrOpt}

----------------------------------------------------------------------------
(* Client A: transport helper *)

(* the None values are kept *)
FilterNone_keep(d) == d

FilterNone(d) == [k \in {x \in DOMAIN d : d[x] # None} |-> d[k]]

(* The arguments of session.request; the session's default headers are      *)
(* merged into every request the session sends.                             *)
A_request_args(base, hdrs, tmo, c) ==
    [verb    |-> c.verb,
     url     |-> base \o c.path,
     headers |-> hdrs,
     json    |-> c.json,
     params  |-> IF c.params # NoDict /\ c.params[1] # EmptyDict
                 THEN Some(FilterNone(c.params[1]))
                 ELSE c.params,
     timeout |-> tmo]

----------------------------------------------------------------------------
(* What the server and the network may answer *)

Statuses == {200, 404, 500}

TransportErrors == {"connect", "timeout"}

Response(status, err, body) == [status |-> status, err |-> err, body |-> body]

Is2xx(status) == status >= 200 /\ status < 300

Failed(resp) == resp.err # "" \/ ~Is2xx(resp.status)

BeamFields ==
    {"beam_id", "kind", "title", "tags", "body", "status", "pinned", "updated_at_ms"}

BeamJson(id, pinned) ==
    [beam_id |-> id, kind |-> "note", title |-> "T", tags |-> "['t']", body |-> "B",
     status |-> "active", pinned |-> pinned, updated_at_ms |-> "1700"]

BeamPool == {BeamJson("n1", "False"), Put(BeamJson("n2", "True"), "score", "9")}

BeamLists == UNION {[1..k -> BeamPool] : k \in 0..MaxBeams}

QueryBodies ==
    UNION {{[beams |-> bs, total |-> n] : n \in {0, Len(bs), Len(bs) + 1}} :
           bs \in BeamLists}

MessageJson == [id |-> "m1", role |-> "user", content |-> "hi", timestamp |-> "1700"]

HealthBodies ==
    {[status |-> "ok"],
     [status |-> "ok", bootStatus |-> "ready"],
     [status |-> "ok", bootStatus |-> "ready", governance |-> "{'g': 1}"],
     [status |-> "ok", bootStatus |-> "ready", version |-> "1.0"]}

A_Bodies(m) ==
    CASE m = "health" -> HealthBodies
      [] m = "send_message" ->
            {[message |-> MessageJson],
             [message |-> Put(MessageJson, "metadata", "{'a': 1}"), stream_id |-> "s1"]}
      [] m = "get_chat_history" ->
            {[messages |-> <<MessageJson, Put(MessageJson, "metadata", "{'a': 1}")>>,
              total |-> 2, limit |-> 50, offset |-> 0]}
      [] m = "query_beams" -> QueryBodies
      [] m \in {"get_beam", "create_beam", "update_beam"} ->
            BeamPool \cup {[beam_id |-> "n1"]}
      [] OTHER -> {[ok |-> "True"]}

Responses(bodies) ==
    {Response(200, "", b) : b \in bodies}
    \cup {Response(st, "", [error |-> "failed"]) : st \in Statuses \ {200}}
    \cup {Response(0, e, EmptyDict) : e \in TransportErrors}

----------------------------------------------------------------------------
(* Outcomes of a call *)

NoOutcome == [tag |-> "none"]

Return(v) == [tag |-> "return", value |-> v]

Error(kind, status, context) == [kind |-> kind, status |-> status, context |-> context]

Raise(e) == [tag |-> "raise", error |-> e]

Obj(class, fields) == [class |-> class, fields |-> fields]

----------------------------------------------------------------------------
(* Client A: _request and the conversion of its result *)

requests_error(resp) ==
    IF resp.err = "connect" THEN Error("requests.ConnectionError", 0, <<>>)
    ELSE IF resp.err = "timeout" THEN Error("requests.Timeout", 0, <<>>)
    ELSE Error("requests.HTTPError", resp.status, <<>>)

(* raise_for_status() left out: only a transport failure raises *)
A_request_unchecked(resp) ==
    IF resp.err # ""
    THEN Raise(Error("Exception: API request failed", 0, <<requests_error(resp)>>))
    ELSE Return(resp.body)

A_request(resp) ==
    IF resp.err # "" \/ resp.status >= 400
    THEN Raise(Error("Exception: API request failed", 0, <<requests_error(resp)>>))
    ELSE Return(resp.body)

KeyError == Raise(Error("KeyError", 0, <<>>))

A_ChatMessage(msg) ==
    Obj("ChatMessage",
        [id |-> msg.id, role |-> msg.role, content |-> msg.content,
         timestamp |-> msg.timestamp, metadata |-> Get(msg, "metadata")])

A_Beam(b) ==
    Obj("Beam",
        [beam_id |-> b.beam_id, kind |-> b.kind, title |-> b.title, tags |-> b.tags,
         body |-> b.body, status |-> b.status, pinned |-> b.pinned,
         updated_at_ms |-> b.updated_at_ms])

(* the beams come out in reverse order *)
A_BeamQueryResponse_reversed(data) ==
    Obj("BeamQueryResponse",
        [beams |-> [i \in 1..Len(data.beams) |->
                       A_Beam(data.beams[Len(data.beams) + 1 - i])],
         total |-> data.total])

A_BeamQueryResponse(data) ==
    Obj("BeamQueryResponse",
        [beams |-> [i \in 1..Len(data.beams) |-> A_Beam(data.beams[i])],
         total |-> data.total])

A_result(m, data) ==
    CASE m = "send_message" ->
            Return(Obj("SendMessageResponse",
                       [message |-> A_ChatMessage(data.message),
                        stream_id |-> Get(data, "stream_id")]))
      [] m = "get_chat_history" ->
            Return(Obj("ChatHistoryResponse",
                       [messages |-> [i \in 1..Len(data.messages) |->
                                         A_ChatMessage(data.messages[i])],
                        total |-> data.total, limit |-> data.limit,
                        offset |-> data.offset]))
      [] m = "query_beams" -> Return(A_BeamQueryResponse(data))
      [] m \in {"get_beam", "create_beam", "update_beam"} ->
            IF BeamFields \subseteq DOMAIN data THEN Return(A_Beam(data)) ELSE KeyError
      [] OTHER -> Return(data)

A_outcome(m, resp) ==
    LET r == A_request(resp)
    IN  IF r.tag = "raise" THEN r ELSE A_result(m, r.value)

----------------------------------------------------------------------------
(* Client B: data models (pydantic BaseModel: a missing required field is a  *)
(* validation error, a missing optional field takes its default, a key that  *)
(* is no field of the model is ignored)                                      *)

ValidationError == Raise(Error("pydantic.ValidationError", 0, <<>>))

BaseModel(class, required, defaults, data) ==
    IF required \subseteq DOMAIN data
    THEN Return(Obj(class,
                    [k \in required \cup DOMAIN defaults |->
                        IF k \in DOMAIN data THEN data[k] ELSE defaults[k]]))
    ELSE ValidationError

(* the three optional fields are missing from the model *)
HealthResponse_required_only(data) ==
    BaseModel("HealthResponse", {"status", "bootStatus"}, EmptyDict, data)

HealthResponse(data) ==
    BaseModel("HealthResponse", {"status", "bootStatus"},
              [governance |-> None, storage |-> None, memory |-> None], data)

GenomeMetadata(data) ==
    BaseModel("GenomeMetadata", {"genome_id", "name", "version", "created_at"},
              [parents |-> "[]", invariants |-> "[]", capabilities |-> "[]"], data)

Node(data) ==
    BaseModel("Node", {"id", "type"}, [data |-> "{}", metadata |-> None], data)

Edge(data) ==
    BaseModel("Edge", {"id", "source", "target", "type"}, [metadata |-> None], data)

Receipt(data) ==
    BaseModel("Receipt", {"timestamp", "job_id", "stage", "action", "decision"},
              [policy_id |-> None, genome_id |-> None, genome_version |-> None], data)

JobResult(data) ==
    BaseModel("JobResult", {"job_id", "status"},
              [outputs |-> None, genome_id |-> None, genome_version |-> None], data)

InterpretResponse(data) ==
    BaseModel("InterpretResponse", {"interpretation", "confidence"},
              [citations |-> "[]", genome |-> None], data)

SearchResponse(data) ==
    IF ~({"query", "limit", "count", "results"} \subseteq DOMAIN data)
    THEN ValidationError
    ELSE LET rs == [i \in 1..Len(data.results) |-> Node(data.results[i])]
         IN  IF \E i \in 1..Len(rs) : rs[i].tag = "raise"
             THEN ValidationError
             ELSE BaseModel("SearchResponse", {"query", "limit", "count", "results"},
                            EmptyDict,
                            Put(data, "results", [i \in 1..Len(rs) |-> rs[i].value]))

(* A create response: the created entity under key part, a created flag and  *)
(* an optional Receipt.                                                      *)
CreateResponse(class, part, entity, data) ==
    IF ~({part, "created"} \subseteq DOMAIN data) \/ entity.tag = "raise"
    THEN ValidationError
    ELSE LET r == IF "receipt" \in DOMAIN data
                  THEN Receipt(data.receipt) ELSE Return(None)
         IN  IF r.tag = "raise"
             THEN ValidationError
             ELSE BaseModel(class, {part, "created"}, [receipt |-> None],
                            Put(Put(data, part, entity.value), "receipt", r.value))

CreateNodeResponse(data) ==
    CreateResponse("CreateNodeResponse", "node",
                   IF "node" \in DOMAIN data THEN Node(data.node) ELSE ValidationError,
                   data)

CreateEdgeResponse(data) ==
    CreateResponse("CreateEdgeResponse", "edge",
                   IF "edge" \in DOMAIN data THEN Edge(data.edge) ELSE ValidationError,
                   data)

(* Dict[str, Any] called with the data as keyword arguments: a typing alias *)
(* cannot be instantiated                                                  *)
TypingDict(data) == Raise(Error("TypeError", 0, <<>>))

NodeJson == [id |-> "n1", type |-> "t"]

EdgeJson == [id |-> "e1", source |-> "n1", target |-> "n2", type |-> "rel"]

ReceiptJson ==
    [timestamp |-> "2025", job_id |-> "j1", stage |-> "s", action |-> "a",
     decision |-> "allow"]

B_Bodies(m) ==
    CASE m = "get_health" -> HealthBodies
      [] m = "get_genome" ->
            {[genome_id |-> "g1", name |-> "root", version |-> "1", created_at |-> "2025"]}
      [] m \in {"run_job", "get_job_status"} ->
            {[job_id |-> "j1", status |-> "done"], [status |-> "idle"]}
      [] m = "create_edge" -> {[edge |-> EdgeJson, created |-> "True"]}
      [] m = "get_edge" -> {EdgeJson}
      [] m = "create_node" ->
            {[node |-> NodeJson, created |-> "True"],
             [node |-> NodeJson, created |-> "False", receipt |-> ReceiptJson]}
      [] m = "get_node" -> {NodeJson, [id |-> "n1"]}
      [] m = "search_nodes" ->
            {[query |-> "q", limit |-> "10", count |-> "1", results |-> <<NodeJson>>]}
      [] m = "interpret" -> {[interpretation |-> "i", confidence |-> "0.9"]}
      [] OTHER -> {[ok |-> "True"]}

httpx_error(resp) ==
    IF resp.err = "connect" THEN Error("httpx.ConnectError", 0, <<>>)
    ELSE IF resp.err = "timeout" THEN Error("httpx.TimeoutException", 0, <<>>)
    ELSE Error("httpx.HTTPStatusError", resp.status, <<>>)

----------------------------------------------------------------------------
(* Client B, blocking: transport helper and endpoint methods *)

B_get_args(base, key, tmo, c) ==
    [verb    |-> "GET",
     url     |-> base \o c.path,
     headers |-> B_headers(key),
     json    |-> NoDict,
     params  |-> c.params,
     timeout |-> tmo]

B_post_args(base, key, tmo, c) ==
    [verb    |-> "POST",
     url     |-> base \o c.path,
     headers |-> B_headers(key),
     json    |-> c.json,
     params  |-> NoDict,
     timeout |-> tmo]

B_request_args(base, key, tmo, c) ==
    IF c.verb = "GET" THEN B_get_args(base, key, tmo, c)
    ELSE B_post_args(base, key, tmo, c)

B_get(resp) ==
    IF Failed(resp) THEN Raise(httpx_error(resp)) ELSE Return(resp.body)

B_post(resp) ==
    IF Failed(resp) THEN Raise(httpx_error(resp)) ELSE Return(resp.body)

B_get_genome ==
    Call("get_genome", "GET", <<"/genome">>, NoDict, NoDict, EmptyDict, {})

B_get_health ==
    Call("get_health", "GET", <<"/health">>, NoDict, NoDict, EmptyDict, {})

B_get_job_logs(job_id, limit) ==
    Call("get_job_logs", "GET", <<"/jobs/logs">>, NoDict, NoDict,
         [job_id |-> job_id, limit |-> limit], {"job_id", "limit"})

B_resume_job ==
    Call("resume_job", "POST", <<"/jobs/resume">>, NoDict, NoDict, EmptyDict, {})

B_run_job(job_type, inputs, policy_id) ==
    LET p0 == [jobType |-> job_type]
        p1 == IF Truthy(inputs) THEN Put(p0, "inputs", inputs) ELSE p0
        p2 == IF Truthy(policy_id) THEN Put(p1, "policyId", policy_id) ELSE p1
    IN  Call("run_job", "POST", <<"/jobs/run">>, Some(p2), NoDict,
             [job_type |-> job_type, inputs |-> inputs, policy_id |-> policy_id],
             {"inputs", "policy_id"})

B_get_job_status(job_id, limit) ==
    LET p1 == IF Truthy(job_id) THEN Put(EmptyDict, "job_id", job_id) ELSE EmptyDict
        p2 == IF Truthy(limit) THEN Put(p1, "limit", limit) ELSE p1
    IN  Call("get_job_status", "GET", <<"/jobs/status">>, NoDict,
             IF p2 # EmptyDict THEN Some(p2) ELSE NoDict,
             [job_id |-> job_id, limit |-> limit], {"job_id", "limit"})

B_create_edge(idempotency_key, from_node, to_node, type, metadata) ==
    LET p0 == [idempotency_key |-> idempotency_key, from |-> from_node,
               to |-> to_node, type |-> type]
        p1 == IF Truthy(metadata) THEN Put(p0, "metadata", metadata) ELSE p0
    IN  Call("create_edge", "POST", <<"/memory/edges">>, Some(p1), NoDict,
             [idempotency_key |-> idempotency_key, from_node |-> from_node,
              to_node |-> to_node, type |-> type, metadata |-> metadata],
             {"metadata"})

B_get_edge(id) ==
    Call("get_edge", "GET", <<"/memory/edges/", id>>, NoDict, NoDict, [id |-> id], {})

B_create_hyperedge ==
    Call("create_hyperedge", "POST", <<"/memory/hyperedges">>, NoDict, NoDict,
         EmptyDict, {})

B_get_hyperedge(id) ==
    Call("get_hyperedge", "GET", <<"/memory/hyperedges/", id>>, NoDict, NoDict,
         [id |-> id], {})

B_create_node(idempotency_key, type, data, metadata, id) ==
    LET p0 == [idempotency_key |-> idempotency_key, type |-> type]
        p1 == IF Truthy(data) THEN Put(p0, "data", data) ELSE p0
        p2 == IF Truthy(metadata) THEN Put(p1, "metadata", metadata) ELSE p1
        p3 == IF Truthy(id) THEN Put(p2, "id", id) ELSE p2
    IN  Call("create_node", "POST", <<"/memory/nodes">>, Some(p3), NoDict,
             [idempotency_key |-> idempotency_key, type |-> type, data |-> data,
              metadata |-> metadata, id |-> id],
             {"data", "metadata", "id"})

B_get_node(id) ==
    Call("get_node", "GET", <<"/memory/nodes/", id>>, NoDict, NoDict, [id |-> id], {})

(* the path is a plain string, not an f-string: the braces are sent as written *)
B_update_node(id) ==
    Call("update_node", "POST", <<"/memory/nodes/{id}">>, NoDict, NoDict,
         [id |-> id], {})

B_get_node_edges(id) ==
    Call("get_node_edges", "GET", <<"/memory/nodes/", id, "/edges">>, NoDict, NoDict,
         [id |-> id], {})

B_get_node_hyperedges(id) ==
    Call("get_node_hyperedges", "GET", <<"/memory/nodes/", id, "/hyperedges">>,
         NoDict, NoDict, [id |-> id], {})

B_search_nodes(query, limit) ==
    Call("search_nodes", "GET", <<"/memory/search">>, NoDict,
         Some([q |-> query, limit |-> limit]), [query |-> query, limit |-> limit], {})

B_interpret(text, limit) ==
    LET p0 == [text |-> text]
        p1 == IF Truthy(limit) THEN Put(p0, "limit", limit) ELSE p0
    IN  Call("interpret", "POST", <<"/oi/interpret">>, Some(p1), NoDict,
             [text |-> text, limit |-> limit], {"limit"})

B_get_openapi ==
    Call("get_openapi", "GET", <<"/openapi.json">>, NoDict, NoDict, EmptyDict, {})

B_Calls ==
    {B_get_genome, B_get_health, B_resume_job, B_create_hyperedge,
     B_get_openapi}
    \cup {B_get_job_logs(j, None) : j \in StrOpt}
    \cup {B_run_job("build", i, p) : i \in DictOpt, p \in StrOpt}
    \cup {B_get_job_status(j, l) : j \in StrOpt, l \in IntOpt}
    \cup {B_create_edge("i1", "n1", "n2", "rel", md) : md \in DictOpt}
    \cup {B_get_edge(i) : i \in Ids}
    \cup {B_get_hyperedge(i) : i \in Ids}
    \cup {B_create_node("i1", "t", d, md, i) :
             d \in DictOpt, md \in DictOpt, i \in StrOpt}
    \cup {B_get_node(i) : i \in Ids}
    \cup {B_update_node(i) : i \in Ids}
    \cup {B_get_node_edges(i) : i \in Ids}
    \cup {B_get_node_hyperedges(i) : i \in Ids}
    \cup {B_search_nodes("q", "10")}
    \cup {B_interpret("x", l) : l \in IntOpt}

B_result(m, data) ==
    CASE m = "get_genome" -> GenomeMetadata(data)
      [] m = "get_health" -> HealthResponse(data)
      [] m \in {"get_job_logs", "get_hyperedge", "get_node_edges",
                "get_node_hyperedges", "get_openapi"} -> TypingDict(data)
      [] m = "run_job" -> JobResult(data)
      [] m = "get_job_status" ->
            IF "job_id" \in DOMAIN data THEN JobResult(data) ELSE Return(data)
      [] m = "create_edge" -> CreateEdgeResponse(data)
      [] m = "get_edge" -> Edge(data)
      [] m = "create_node" -> CreateNodeResponse(data)
      [] m = "get_node" -> Node(data)
      [] m = "search_nodes" -> SearchResponse(data)
      [] m = "interpret" -> InterpretResponse(data)
      [] OTHER -> Return(data)

B_outcome(c, resp) ==
    LET r == IF c.verb = "GET" THEN B_get(resp) ELSE B_post(resp)
    IN  IF r.tag = "raise" THEN r ELSE B_result(c.m, r.value)

----------------------------------------------------------------------------
(* Client B, suspending: transport helper and endpoint methods *)

AsyncB_get_args(base, key, tmo, c) ==
    [verb    |-> "GET",
     url     |-> base \o c.path,
     headers |-> AsyncB_headers(key),
     json    |-> NoDict,
     params  |-> c.params,
     timeout |-> tmo]

AsyncB_post_args(base, key, tmo, c) ==
    [verb    |-> "POST",
     url     |-> base \o c.path,
     headers |-> AsyncB_headers(key),
     json    |-> c.json,
     params  |-> NoDict,
     timeout |-> tmo]

AsyncB_request_args(base, key, tmo, c) ==
    IF c.verb = "GET" THEN AsyncB_get_args(base, key, tmo, c)
    ELSE AsyncB_post_args(base, key, tmo, c)

AsyncB_get(resp) ==
    IF Failed(resp) THEN Raise(httpx_error(resp)) ELSE Return(resp.body)

AsyncB_post(resp) ==
    IF Failed(resp) THEN Raise(httpx_error(resp)) ELSE Return(resp.body)

AsyncB_get_genome ==
    Call("get_genome", "GET", <<"/genome">>, NoDict, NoDict, EmptyDict, {})

AsyncB_get_health ==
    Call("get_health", "GET", <<"/health">>, NoDict, NoDict, EmptyDict, {})

AsyncB_get_job_logs(job_id, limit) ==
    Call("get_job_logs", "GET", <<"/jobs/logs">>, NoDict, NoDict,
         [job_id |-> job_id, limit |-> limit], {"job_id", "limit"})

AsyncB_resume_job ==
    Call("resume_job", "POST", <<"/jobs/resume">>, NoDict, NoDict, EmptyDict, {})

AsyncB_run_job(job_type, inputs, policy_id) ==
    LET p0 == [jobType |-> job_type]
        p1 == IF Truthy(inputs) THEN Put(p0, "inputs", inputs) ELSE p0
        p2 == IF Truthy(policy_id) THEN Put(p1, "policyId", policy_id) ELSE p1
    IN  Call("run_job", "POST", <<"/jobs/run">>, Some(p2), NoDict,
             [job_type |-> job_type, inputs |-> inputs, policy_id |-> policy_id],
             {"inputs", "policy_id"})

AsyncB_get_job_status(job_id, limit) ==
    LET p1 == IF Truthy(job_id) THEN Put(EmptyDict, "job_id", job_id) ELSE EmptyDict
        p2 == IF Truthy(limit) THEN Put(p1, "limit", limit) ELSE p1
    IN  Call("get_job_status", "GET", <<"/jobs/status">>, NoDict,
             IF p2 # EmptyDict THEN Some(p2) ELSE NoDict,
             [job_id |-> job_id, limit |-> limit], {"job_id", "limit"})

AsyncB_create_edge(idempotency_key, from_node, to_node, type, metadata) ==
    LET p0 == [idempotency_key |-> idempotency_key, from |-> from_node,
               to |-> to_node, type |-> type]
        p1 == IF Truthy(metadata) THEN Put(p0, "metadata", metadata) ELSE p0
    IN  Call("create_edge", "POST", <<"/memory/edges">>, Some(p1), NoDict,
             [idempotency_key |-> idempotency_key, from_node |-> from_node,
              to_node |-> to_node, type |-> type, metadata |-> metadata],
             {"metadata"})

AsyncB_get_edge(id) ==
    Call("get_edge", "GET", <<"/memory/edges/", id>>, NoDict, NoDict, [id |-> id], {})

AsyncB_create_hyperedge ==
    Call("create_hyperedge", "POST", <<"/memory/hyperedges">>, NoDict, NoDict,
         EmptyDict, {})

AsyncB_get_hyperedge(id) ==
    Call("get_hyperedge", "GET", <<"/memory/hyperedges/", id>>, NoDict, NoDict,
         [id |-> id], {})

AsyncB_create_node(idempotency_key, type, data, metadata, id) ==
    LET p0 == [idempotency_key |-> idempotency_key, type |-> type]
        p1 == IF Truthy(data) THEN Put(p0, "data", data) ELSE p0
        p2 == IF Truthy(metadata) THEN Put(p1, "metadata", metadata) ELSE p1
        p3 == IF Truthy(id) THEN Put(p2, "id", id) ELSE p2
    IN  Call("create_node", "POST", <<"/memory/nodes">>, Some(p3), NoDict,
             [idempotency_key |-> idempotency_key, type |-> type, data |-> data,
              metadata |-> metadata, id |-> id],
             {"data", "metadata", "id"})

AsyncB_get_node(id) ==
    Call("get_node", "GET", <<"/memory/nodes/", id>>, NoDict, NoDict, [id |-> id], {})

(* the path is a plain string, not an f-string: the braces are sent as written *)
(* the id is interpolated into the path *)
AsyncB_update_node_interpolated(id) ==
    Call("update_node", "POST", <<"/memory/nodes/", id>>, NoDict, NoDict,
         [id |-> id], {})

AsyncB_update_node(id) ==
    Call("update_node", "POST", <<"/memory/nodes/{id}">>, NoDict, NoDict,
         [id |-> id], {})

AsyncB_get_node_edges(id) ==
    Call("get_node_edges", "GET", <<"/memory/nodes/", id, "/edges">>, NoDict, NoDict,
         [id |-> id], {})

AsyncB_get_node_hyperedges(id) ==
    Call("get_node_hyperedges", "GET", <<"/memory/nodes/", id, "/hyperedges">>,
         NoDict, NoDict, [id |-> id], {})

AsyncB_search_nodes(query, limit) ==
    Call("search_nodes", "GET", <<"/memory/search">>, NoDict,
         Some([q |-> query, limit |-> limit]), [query |-> query, limit |-> limit], {})

AsyncB_interpret(text, limit) ==
    LET p0 == [text |-> text]
        p1 == IF Truthy(limit) THEN Put(p0, "limit", limit) ELSE p0
    IN  Call("interpret", "POST", <<"/oi/interpret">>, Some(p1), NoDict,
             [text |-> text, limit |-> limit], {"limit"})

AsyncB_get_openapi ==
    Call("get_openapi", "GET", <<"/openapi.json">>, NoDict, NoDict, EmptyDict, {})

AsyncB_Calls ==
    {AsyncB_get_genome, AsyncB_get_health, AsyncB_resume_job, AsyncB_create_hyperedge,
     AsyncB_get_openapi}
    \cup {AsyncB_get_job_logs(j, None) : j \in StrOpt}
    \cup {AsyncB_run_job("build", i, p) : i \in DictOpt, p \in StrOpt}
    \cup {AsyncB_get_job_status(j, l) : j \in StrOpt, l \in IntOpt}
    \cup {AsyncB_create_edge("i1", "n1", "n2", "rel", md) : md \in DictOpt}
    \cup {AsyncB_get_edge(i) : i \in Ids}
    \cup {AsyncB_get_hyperedge(i) : i \in Ids}
    \cup {AsyncB_create_node("i1", "t", d, md, i) :
             d \in DictOpt, md \in DictOpt, i \in StrOpt}
    \cup {AsyncB_get_node(i) : i \in Ids}
    \cup {AsyncB_update_node(i) : i \in Ids}
    \cup {AsyncB_get_node_edges(i) : i \in Ids}
    \cup {AsyncB_get_node_hyperedges(i) : i \in Ids}
    \cup {AsyncB_search_nodes("q", "10")}
    \cup {AsyncB_interpret("x", l) : l \in IntOpt}

AsyncB_result(m, data) ==
    CASE m = "get_genome" -> GenomeMetadata(data)
      [] m = "get_health" -> HealthResponse(data)
      [] m \in {"get_job_logs", "get_hyperedge", "get_node_edges",
                "get_node_hyperedges", "get_openapi"} -> TypingDict(data)
      [] m = "run_job" -> JobResult(data)
      [] m = "get_job_status" ->
            IF "job_id" \in DOMAIN data THEN JobResult(data) ELSE Return(data)
      [] m = "create_edge" -> CreateEdgeResponse(data)
      [] m = "get_edge" -> Edge(data)
      [] m = "create_node" -> CreateNodeResponse(data)
      [] m = "get_node" -> Node(data)
      [] m = "search_nodes" -> SearchResponse(data)
      [] m = "interpret" -> InterpretResponse(data)
      [] OTHER -> Return(data)

AsyncB_outcome(c, resp) ==
    LET r == IF c.verb = "GET" THEN AsyncB_get(resp) ELSE AsyncB_post(resp)
    IN  IF r.tag = "raise" THEN r ELSE AsyncB_result(c.m, r.value)

----------------------------------------------------------------------------
(* The clients as a state machine *)

NoCall == [m |-> "none"]

NoRequest == [verb |-> "none"]

NoResponse == [status |-> 0, err |-> "none"]

A_init(a) ==
    /\ base_url = rstrip(a.base_url, "/")
    /\ api_key = a.api_key
    /\ timeout = a.timeout
    /\ session_headers = A_session_headers(a.api_key)

B_init(a) ==
    /\ base_url = rstrip(a.base_url, "/")
    /\ api_key = a.api_key
    /\ timeout = a.timeout
    /\ session_headers = EmptyDict

AsyncB_init(a) ==
    /\ base_url = rstrip(a.base_url, "/")
    /\ api_key = a.api_key
    /\ timeout = a.timeout
    /\ session_headers = EmptyDict

Init ==
    /\ ctor \in CtorArgs
    /\ variant \in Variants
    /\ CASE variant = "A" -> A_init(ctor)
         [] variant = "B" -> B_init(ctor)
         [] variant = "AsyncB" -> AsyncB_init(ctor)
    /\ scope = "plain"
    /\ closed = FALSE
    /\ pc = "idle"
    /\ nCalls = 0
    /\ nSent = 0
    /\ lastCall = NoCall
    /\ lastReq = NoRequest
    /\ lastResp = NoResponse
    /\ outcome = NoOutcome
    /\ lifecycleLog = <<>>

(* One invocation of the HTTP library's request primitive with request req,  *)
(* n requests having been sent before.                                       *)
(* a GET is sent a second time *)
A_send_get_twice(n, req) == IF req.verb = "GET" THEN n + 2 ELSE n + 1

A_send(n, req) == n + 1

B_send(n, req) == n + 1

AsyncB_send(n, req) == n + 1

CanCall == pc = "idle" /\ ~closed /\ scope # "left" /\ nCalls < MaxCalls

(* Client A: an endpoint method, from the call to its return or raise *)
(* _request keeps the URL it built as the client's base_url *)
CallA_keeps_url ==
    /\ variant = "A" /\ CanCall
    /\ \E c \in A_Calls :
         \E resp \in Responses(A_Bodies(c.m)) :
            LET req == A_request_args(base_url, session_headers, timeout, c)
            IN  /\ lastCall' = c
                /\ lastReq' = req
                /\ nSent' = A_send(nSent, req)
                /\ lastResp' = resp
                /\ outcome' = A_outcome(c.m, resp)
                /\ base_url' = req.url
    /\ nCalls' = nCalls + 1
    /\ pc' = "done"
    /\ UNCHANGED <<ctor, variant, api_key, timeout, session_headers,
                   lifecycleLog, scope, closed>>

CallA ==
    /\ variant = "A" /\ CanCall
    /\ \E c \in A_Calls :
         \E resp \in Responses(A_Bodies(c.m)) :
            LET req == A_request_args(base_url, session_headers, timeout, c)
            IN  /\ lastCall' = c
                /\ lastReq' = req
                /\ nSent' = A_send(nSent, req)
                /\ lastResp' = resp
                /\ outcome' = A_outcome(c.m, resp)
    /\ nCalls' = nCalls + 1
    /\ pc' = "done"
    /\ UNCHANGED <<config, lifecycleLog, scope, closed>>

(* Client B, blocking: an endpoint method, from the call to its return or raise *)
CallB ==
    /\ variant = "B" /\ CanCall
    /\ \E c \in B_Calls :
         \E resp \in Responses(B_Bodies(c.m)) :
            LET req == B_request_args(base_url, api_key, timeout, c)
            IN  /\ lastCall' = c
                /\ lastReq' = req
                /\ nSent' = B_send(nSent, req)
                /\ lastResp' = resp
                /\ outcome' = B_outcome(c, resp)
    /\ nCalls' = nCalls + 1
    /\ pc' = "done"
    /\ UNCHANGED <<config, lifecycleLog, scope, closed>>

(* Client B, suspending: an endpoint method up to its await *)
CallAsyncB ==
    /\ variant = "AsyncB" /\ CanCall
    /\ \E c \in AsyncB_Calls :
            LET req == AsyncB_request_args(base_url, api_key, timeout, c)
            IN  /\ lastCall' = c
                /\ lastReq' = req
                /\ nSent' = AsyncB_send(nSent, req)
    /\ nCalls' = nCalls + 1
    /\ pc' = "awaiting"
    /\ UNCHANGED <<config, lifecycleLog, scope, closed, lastResp, outcome>>

(* Client B, suspending: the awaited response arrives and the method resumes *)
ResumeAsyncB ==
    /\ variant = "AsyncB" /\ pc = "awaiting"
    /\ \E resp \in Responses(B_Bodies(lastCall.m)) :
         /\ lastResp' = resp
         /\ outcome' = AsyncB_outcome(lastCall, resp)
    /\ pc' = "done"
    /\ UNCHANGED <<config, lifecycleLog, scope, closed, nCalls, nSent, lastCall, lastReq>>

(* The caller takes the result or handles the exception: nothing of the call *)
(* remains in the client.                                                    *)
Consume ==
    /\ pc = "done" /\ scope # "left"
    /\ pc' = "idle"
    /\ lastCall' = NoCall
    /\ lastReq' = NoRequest
    /\ lastResp' = NoResponse
    /\ outcome' = NoOutcome
    /\ UNCHANGED <<config, lifecycleLog, scope, closed, nCalls, nSent>>

(* close(): closes the underlying httpx client *)
B_close(c) == TRUE

AsyncB_close(c) == TRUE

(* __exit__ / __aexit__: exc tells whether the block is left by an exception *)
(* closes only when the block ends without an exception *)
B_exit_unless_raised(c, exc) == IF exc THEN c ELSE B_close(c)

B_exit(c, exc) == B_close(c)

AsyncB_aexit(c, exc) == AsyncB_close(c)

Raised == outcome.tag = "raise"

EnterB ==
    /\ variant = "B" /\ scope = "plain" /\ pc = "idle" /\ ~closed
    /\ scope' = "with"
    /\ UNCHANGED <<config, lifecycleLog, closed, pc, nCalls, nSent,
                   lastCall, lastReq, lastResp, outcome>>

(* the with block is left, normally or by the exception a call raised *)
ExitB ==
    /\ variant = "B" /\ scope = "with" /\ pc \in {"idle", "done"}
    /\ closed' = B_exit(closed, Raised)
    /\ scope' = "left"
    /\ UNCHANGED <<config, lifecycleLog, pc, nCalls, nSent,
                   lastCall, lastReq, lastResp, outcome>>

CloseB ==
    /\ variant = "B" /\ scope = "plain" /\ pc = "idle" /\ ~closed
    /\ closed' = B_close(closed)
    /\ scope' = "left"
    /\ UNCHANGED <<config, lifecycleLog, pc, nCalls, nSent,
                   lastCall, lastReq, lastResp, outcome>>

EnterAsyncB ==
    /\ variant = "AsyncB" /\ scope = "plain" /\ pc = "idle" /\ ~closed
    /\ scope' = "with"
    /\ UNCHANGED <<config, lifecycleLog, closed, pc, nCalls, nSent,
                   lastCall, lastReq, lastResp, outcome>>

ExitAsyncB ==
    /\ variant = "AsyncB" /\ scope = "with" /\ pc \in {"idle", "done"}
    /\ closed' = AsyncB_aexit(closed, Raised)
    /\ scope' = "left"
    /\ UNCHANGED <<config, lifecycleLog, pc, nCalls, nSent,
                   lastCall, lastReq, lastResp, outcome>>

CloseAsyncB ==
    /\ variant = "AsyncB" /\ scope = "plain" /\ pc = "idle" /\ ~closed
    /\ closed' = AsyncB_close(closed)
    /\ scope' = "left"
    /\ UNCHANGED <<config, lifecycleLog, pc, nCalls, nSent,
                   lastCall, lastReq, lastResp, outcome>>

Next ==
    \/ CallA
    \/ CallB
    \/ CallAsyncB
    \/ ResumeAsyncB
    \/ Consume
    \/ EnterB
    \/ ExitB
    \/ CloseB
    \/ EnterAsyncB
    \/ ExitAsyncB
    \/ CloseAsyncB

Spec == Init /\ [][Next]_vars

----------------------------------------------------------------------------
(* Client A's beam lifecycle methods, called one after another on a client  *)
(* that keeps the calls made so far on record                               *)

LogEntry(c, o) == [m |-> c.m, beam_id |-> c.args.beam_id, tag |-> o.tag]

InitLifecycle ==
    /\ Init
    /\ variant = "A"
    /\ ctor.base_url = <<"h">>
    /\ ctor.timeout = DefaultTimeout

(* one lifecycle method, from the call to its return or raise *)
A_lifecycle_call(c) ==
    /\ variant = "A" /\ pc = "idle" /\ Len(lifecycleLog) < MaxLifecycle
    /\ \E resp \in Responses(A_Bodies(c.m)) :
          LET req == A_request_args(base_url, session_headers, timeout, c)
              o == A_outcome(c.m, resp)
          IN  /\ lastCall' = c
              /\ lastReq' = req
              /\ nSent' = A_send(nSent, req)
              /\ lastResp' = resp
              /\ outcome' = o
              /\ lifecycleLog' = Append(lifecycleLog, LogEntry(c, o))
    /\ nCalls' = nCalls + 1
    /\ pc' = "done"
    /\ UNCHANGED <<config, scope, closed>>

CallLifecycleA == \E c \in A_LifecycleCalls : A_lifecycle_call(c)

NextLifecycle ==
    \/ CallLifecycleA
    \/ Consume

SpecLifecycle == InitLifecycle /\ [][NextLifecycle]_vars

----------------------------------------------------------------------------
(* Properties *)

InCall == pc \in {"awaiting", "done"}

Done == pc = "done"

Cause(e) == IF e.context # <<>> THEN e.context[1] ELSE e

(* the failure the server or the network produced can be read off the error *)
CauseRecoverable(e, resp) ==
    /\ Cause(e).status = resp.status
    /\ resp.err = "" =>
          Cause(e).kind \in {"requests.HTTPError", "httpx.HTTPStatusError"}
    /\ resp.err = "connect" =>
          Cause(e).kind \in {"requests.ConnectionError", "httpx.ConnectError"}
    /\ resp.err = "timeout" =>
          Cause(e).kind \in {"requests.Timeout", "httpx.TimeoutException"}

RequestFailed == "Exception: API request failed"

C2_ReleasedOnExit == scope = "left" => closed

C2_Witness ==
    /\ variant = "B" /\ scope = "left" /\ closed
    /\ Raised /\ Failed(lastResp)

\* C3: every endpoint method call issues exactly one HTTP request, whether it
\* succeeds or fails: after n calls exactly n requests have been sent.
C3_OneRequestPerCall == nSent = nCalls

C3_Witness == Done /\ nCalls = 2 /\ nSent = 2 /\ Raised /\ lastCall.verb = "GET"

DictOf(opt) == IF Len(opt) = 0 THEN EmptyDict ELSE opt[1]

(* the keys of the query string and of the JSON payload of a request *)
SentKeys(req) == (DOMAIN DictOf(req.json)) \cup (DOMAIN DictOf(req.params))

SentValue(req, k) ==
    IF k \in DOMAIN DictOf(req.json) THEN DictOf(req.json)[k]
    ELSE DictOf(req.params)[k]

(* the key an argument is sent under *)
WireName(k) == IF k = "policy_id" THEN "policyId" ELSE k

\* C4: an optional argument the caller leaves as None is absent as a key from
\* the outgoing query string / JSON payload, and no key is sent with a null
\* value, for any subset of omitted optional arguments.
C4_OmittedAbsent ==
    InCall =>
        /\ \A k \in lastCall.opt :
              lastCall.args[k] = None => WireName(k) \notin SentKeys(lastReq)
        /\ \A k \in SentKeys(lastReq) : SentValue(lastReq, k) # None

C4_Witness ==
    /\ InCall /\ lastCall.m = "query_beams"
    /\ \A k \in lastCall.opt : lastCall.args[k] = None
    /\ lastReq.params = Some(EmptyDict)

C5_Methods ==
    {"update_beam", "create_beam", "query_beams", "tombstone_beam",
     "run_job", "get_job_status", "create_node", "create_edge", "interpret"}

(* A key is omitted when it is not handed to the HTTP library; an empty list *)
(* among the query parameters is left out of the query string by the HTTP    *)
(* library and counts as omitted as well.                                    *)
Omitted(req, k) ==
    \/ k \notin SentKeys(req)
    \/ k \in DOMAIN DictOf(req.params) /\ DictOf(req.params)[k] = "[]"

\* C5 (as claimed): an optional argument that is absent or falsy (None, empty
\* string, empty list/map, 0, False) is omitted from the outgoing payload/query
\* of each of the methods the claim lists.
C5_FalsyOmitted ==
    (InCall /\ lastCall.m \in C5_Methods) =>
        \A k \in lastCall.opt :
            ~Truthy(lastCall.args[k]) => Omitted(lastReq, WireName(k))

(* the optional arguments a method drops only when they are None *)
NoneOnly(m) ==
    CASE m = "query_beams" -> {"text", "tags", "kinds", "include_dead", "limit"}
      [] m = "get_chat_history" -> {"limit", "offset"}
      [] m = "create_beam" -> {"pinned"}
      [] OTHER -> {}

\* C5 (amended): an optional argument that is None is omitted by every endpoint
\* method; a falsy value other than None is omitted too, except by query_beams
\* (text, tags, kinds, include_dead, limit), get_chat_history (limit, offset)
\* and create_beam's pinned, which hand it to the HTTP library as given.
C5_AbsentOmitted ==
    InCall =>
        \A k \in lastCall.opt :
            LET v == lastCall.args[k]
                sent == WireName(k) \in SentKeys(lastReq)
            IN  /\ v = None => ~sent
                /\ (v # None /\ ~Truthy(v)) =>
                      IF k \in NoneOnly(lastCall.m)
                      THEN sent /\ SentValue(lastReq, WireName(k)) = v
                      ELSE ~sent

C5_Witness ==
    /\ InCall /\ lastCall.m = "update_beam"
    /\ lastCall.args.title = "" /\ lastCall.args.tags = "[]"
    /\ lastCall.args.body = ""
    /\ lastReq.json = Some(EmptyDict)

(* an API key was configured: a key was given and it is not empty *)
Configured(key) == key # None /\ key # ""

\* C6: every request carries Content-Type: application/json, and carries
\* Authorization: Bearer <token> if and only if an API key was configured at
\* construction, with <token> the configured key, after any earlier calls.
C6_Headers ==
    InCall =>
        LET h == lastReq.headers
        IN  /\ "Content-Type" \in DOMAIN h
            /\ h["Content-Type"] = "application/json"
            /\ "Authorization" \in DOMAIN h <=> Configured(ctor.api_key)
            /\ "Authorization" \in DOMAIN h =>
                  h["Authorization"] = "Bearer " \o ctor.api_key

C6_Witness ==
    /\ variant = "B" /\ InCall /\ nCalls = 2
    /\ ctor.api_key = None
    /\ DOMAIN lastReq.headers = {"Content-Type"}

(* the path of each path-parameterized endpoint, "{}" standing for the id *)
PathTemplate(m) ==
    CASE m \in {"get_beam", "update_beam"} -> <<"/api/beams/", "{}">>
      [] m \in {"pin_beam", "unpin_beam"} -> <<"/api/beams/", "{}", "/pin">>
      [] m = "retire_beam" -> <<"/api/beams/", "{}", "/retire">>
      [] m = "tombstone_beam" -> <<"/api/beams/", "{}", "/tombstone">>
      [] m = "get_edge" -> <<"/memory/edges/", "{}">>
      [] m = "get_hyperedge" -> <<"/memory/hyperedges/", "{}">>
      [] m \in {"get_node", "update_node"} -> <<"/memory/nodes/", "{}">>
      [] m = "get_node_edges" -> <<"/memory/nodes/", "{}", "/edges">>
      [] m = "get_node_hyperedges" -> <<"/memory/nodes/", "{}", "/hyperedges">>

PathMethods ==
    {"get_beam", "update_beam", "pin_beam", "unpin_beam", "retire_beam",
     "tombstone_beam", "get_edge", "get_hyperedge", "get_node", "update_node",
     "get_node_edges", "get_node_hyperedges"}

Interpolate(t, id) == [i \in 1..Len(t) |-> IF t[i] = "{}" THEN id ELSE t[i]]

GivenId(c) == IF "beam_id" \in DOMAIN c.args THEN c.args.beam_id ELSE c.args.id

\* C7: every path-parameterized endpoint method requests base_url followed by
\* the endpoint's path template with the placeholder replaced by the
\* identifier it is given.
C7_PathInterpolated ==
    (InCall /\ lastCall.m \in PathMethods) =>
        lastReq.url = base_url \o Interpolate(PathTemplate(lastCall.m), GivenId(lastCall))

EndsWithSlash(s) == Len(s) > 0 /\ s[Len(s)] = "/"

StripOne(s) == IF EndsWithSlash(s) THEN SubSeq(s, 1, Len(s) - 1) ELSE s

\* C8: for a constructor input with zero or one trailing slash, the stored
\* base_url is the input with that trailing slash stripped once; an input
\* without a trailing slash is stored unchanged.
C8_TrailingSlash ==
    ~EndsWithSlash(StripOne(ctor.base_url)) => base_url = StripOne(ctor.base_url)

C8_Witness ==
    /\ ctor.base_url = <<"h", "/", "p", "/">>
    /\ base_url = <<"h", "/", "p">>
    /\ InCall

\* C9: when the transport returns {"beams": [b1..bk], "total": N} for
\* GET /api/beams, query_beams returns exactly k Beam records, the i-th with
\* the fields of the i-th element, and a total equal to N whether or not N = k.
C9_QueryBeams ==
    (Done /\ lastCall.m = "query_beams" /\ ~Failed(lastResp)) =>
        /\ outcome.tag = "return"
        /\ outcome.value.class = "BeamQueryResponse"
        /\ LET r == outcome.value.fields
               body == lastResp.body
           IN  /\ Len(r.beams) = Len(body.beams)
               /\ \A i \in 1..Len(body.beams) :
                     /\ r.beams[i].class = "Beam"
                     /\ DOMAIN r.beams[i].fields = BeamFields
                     /\ \A f \in BeamFields : r.beams[i].fields[f] = body.beams[i][f]
               /\ r.total = body.total

C9_Witness ==
    /\ Done /\ lastCall.m = "query_beams" /\ outcome.tag = "return"
    /\ Len(lastResp.body.beams) = 2
    /\ lastResp.body.beams[1].beam_id = "n2"
    /\ lastResp.body.beams[2].beam_id = "n1"
    /\ lastResp.body.total = 3
    /\ outcome.value.fields.beams[1].fields.beam_id = "n2"

HealthCall == Done /\ lastCall.m \in {"health", "get_health"} /\ ~Failed(lastResp)

\* C10 (as claimed): given a 2xx JSON body for GET /health, the health call of
\* every client returns a result whose fields equal the body's fields verbatim:
\* none dropped, added, renamed or transformed.
C10_HealthVerbatim ==
    HealthCall =>
        /\ outcome.tag = "return"
        /\ (IF variant = "A" THEN outcome.value ELSE outcome.value.fields)
              = lastResp.body

HealthFields == {"status", "bootStatus", "governance", "storage", "memory"}

\* C10 (amended): given a 2xx JSON body for GET /health, Client A's health
\* returns the body verbatim; Client B's get_health (blocking and suspending)
\* returns a HealthResponse with exactly the fields status, bootStatus,
\* governance, storage and memory, each equal to the body's value under that
\* key and None where the body lacks an optional one, drops every other key of
\* the body, and raises a validation error when status or bootStatus is missing.
C10_HealthFields ==
    HealthCall =>
        IF variant = "A"
        THEN outcome = Return(lastResp.body)
        ELSE IF {"status", "bootStatus"} \subseteq DOMAIN lastResp.body
             THEN /\ outcome.tag = "return"
                  /\ outcome.value.class = "HealthResponse"
                  /\ DOMAIN outcome.value.fields = HealthFields
                  /\ \A f \in HealthFields :
                        outcome.value.fields[f] = Get(lastResp.body, f)
             ELSE /\ Raised
                  /\ outcome.error.kind = "pydantic.ValidationError"

C10_Witness ==
    /\ variant = "AsyncB" /\ HealthCall /\ outcome.tag = "return"
    /\ "governance" \in DOMAIN lastResp.body
    /\ outcome.value.fields.governance = lastResp.body.governance
    /\ outcome.value.fields.storage = None

----------------------------------------------------------------------------
(* The beam lifecycle *)

LifecycleMethods == {"pin_beam", "unpin_beam", "retire_beam", "tombstone_beam"}

BeamUrl(id, tail) == base_url \o <<"/api/beams/", id, tail>>

(* the verb, URL and body of a lifecycle call, from its arguments alone *)
LifecycleRequest(m, a) ==
    CASE m = "pin_beam" ->
            [verb |-> "POST", url |-> BeamUrl(a.beam_id, "/pin"), json |-> NoDict]
      [] m = "unpin_beam" ->
            [verb |-> "DELETE", url |-> BeamUrl(a.beam_id, "/pin"), json |-> NoDict]
      [] m = "retire_beam" ->
            [verb |-> "POST", url |-> BeamUrl(a.beam_id, "/retire"), json |-> NoDict]
      [] m = "tombstone_beam" ->
            [verb |-> "POST", url |-> BeamUrl(a.beam_id, "/tombstone"),
             json |-> Some(IF Truthy(a.approval_token)
                           THEN [reason_code |-> a.reason_code,
                                 approval_token |-> a.approval_token]
                           ELSE [reason_code |-> a.reason_code])]

\* C11: Client A enforces no lifecycle state machine.  Whatever pin_beam,
\* unpin_beam, retire_beam and tombstone_beam calls were made before, on the
\* same beam or another, and whether they returned or raised, each of the four
\* calls can be made again and every call made has sent its request; the
\* request's verb, path and body follow from the call's own arguments: pin and
\* retire are a POST and unpin a DELETE without a body, tombstone is a POST
\* whose body holds reason_code, and approval_token only when one is given.
C11_NoLifecycleMachine ==
    /\ nSent = Len(lifecycleLog)
    /\ (pc = "idle" /\ Len(lifecycleLog) < MaxLifecycle) =>
          \A c \in A_LifecycleCalls : ENABLED A_lifecycle_call(c)
    /\ InCall =>
          /\ lastCall.m \in LifecycleMethods
          /\ LET r == LifecycleRequest(lastCall.m, lastCall.args)
             IN  /\ lastReq.verb = r.verb
                 /\ lastReq.url = r.url
                 /\ lastReq.json = r.json
                 /\ lastReq.params = NoDict

(* a retired, then tombstoned beam is pinned *)
C11_Witness ==
    /\ Done /\ ~Raised
    /\ Len(lifecycleLog) = 3
    /\ \A i \in 1..3 : lifecycleLog[i].beam_id = "n1"
    /\ lifecycleLog[1] = [m |-> "retire_beam", beam_id |-> "n1", tag |-> "return"]
    /\ lifecycleLog[2].m = "tombstone_beam" /\ lifecycleLog[2].tag = "return"
    /\ lifecycleLog[3].m = "pin_beam"
    /\ lastReq.verb = "POST"

----------------------------------------------------------------------------
(* Nothing is carried from call to call *)

(* the client holds the configuration its constructor set *)
AsConstructed ==
    CASE variant = "A" -> A_init(ctor)
      [] variant = "B" -> B_init(ctor)
      [] variant = "AsyncB" -> AsyncB_init(ctor)

(* the request a client just constructed with the arguments a sends for the *)
(* call c                                                                   *)
FirstRequest(v, a, c) ==
    CASE v = "A" ->
            A_request_args(rstrip(a.base_url, "/"), A_session_headers(a.api_key),
                           a.timeout, c)
      [] v = "B" -> B_request_args(rstrip(a.base_url, "/"), a.api_key, a.timeout, c)
      [] v = "AsyncB" ->
            AsyncB_request_args(rstrip(a.base_url, "/"), a.api_key, a.timeout, c)

ConfigurationKept ==
    /\ base_url' = base_url
    /\ api_key' = api_key
    /\ timeout' = timeout
    /\ session_headers' = session_headers

----------------------------------------------------------------------------
(* Client B: the blocking and the suspending client *)

(* among calls, the calls of the method of c with the arguments of c *)
SameCall(calls, c) == {d \in calls : d.m = c.m /\ d.args = c.args}

\* C13: Client B's synchronous and asynchronous clients are equivalent method
\* by method.  Constructed with the same parameters they hold the same
\* configuration; each method of one, with its arguments, is a method of the
\* other; for the same method and arguments both send the same request (verb,
\* URL, headers, query, JSON body, timeout) and, given the same response, both
\* return the same typed result or raise the same error.
C13_SyncAsyncEquivalent ==
    /\ (variant = "AsyncB" /\ InCall) =>
          /\ B_init(ctor)
          /\ SameCall(B_Calls, lastCall) # {}
          /\ \A d \in SameCall(B_Calls, lastCall) :
                /\ lastReq = B_request_args(base_url, api_key, timeout, d)
                /\ nSent = B_send(nSent - 1, lastReq)
                /\ Done => outcome = B_outcome(d, lastResp)
    /\ (variant = "B" /\ InCall) =>
          /\ AsyncB_init(ctor)
          /\ SameCall(AsyncB_Calls, lastCall) # {}
          /\ \A d \in SameCall(AsyncB_Calls, lastCall) :
                /\ lastReq = AsyncB_request_args(base_url, api_key, timeout, d)
                /\ nSent = AsyncB_send(nSent - 1, lastReq)
                /\ Done => outcome = AsyncB_outcome(d, lastResp)

(* the suspending client has resumed and returned a Node, as the blocking *)
(* client does for the same response                                      *)
C13_Witness ==
    /\ variant = "AsyncB" /\ Done
    /\ lastCall.m = "get_node"
    /\ outcome.tag = "return"
    /\ outcome = B_outcome(lastCall, lastResp)
    /\ "Authorization" \in DOMAIN lastReq.headers

====
